---- MODULE Spec2Model ----
(* A model of rss2irc.py: one invocation fetches the configured feeds,      *)
(* reconciles the parsed entries with a pickled expiration cache, appends   *)
(* the new entries to the output file and writes the cache back.            *)
(* Invocations run one after another against the same cache and output.     *)
EXTENDS Integers, Sequences, FiniteSets, TLC

(***************************************************************************)
(* Bounds                                                                  *)
(***************************************************************************)
\* The clock counts fractions of a second; time.time() is a float, and
\* int(time.time()) truncates it to whole seconds.
Res == 2
\* Largest clock value (in 1/Res seconds) a behaviour reaches.
MaxClock == 3
\* Number of invocations of the program in one behaviour of SpecRuns.
MaxRuns == 2
\* Largest number of --rss-url options of one invocation.
MaxFeeds == 2
\* Largest number of entries of one feed document.
MaxEntries == 1

(***************************************************************************)
(* Values                                                                  *)
(***************************************************************************)
\* Python's None, kept apart from the text "None" that '%s' renders it as.
PyNone == "<None>"

URLs == {"u1", "u2"}
\* Keys of the news and cache dicts: entry links, None for a missing link.
Keys == URLs \cup {PyNone}

\* bool(x) of a str-or-None value.
Truthy(x) == x # PyNone /\ x # ""

\* '%s' % x
Str(x) == IF x = PyNone THEN "None" ELSE x

\* Values a pickled cache can hold for a key: an int, a non-numeric str
\* (int() raises ValueError), None (int() raises TypeError).
IntV(n) == [k |-> "int", v |-> n]
StrV == [k |-> "str", v |-> 0]
NoneV == [k |-> "none", v |-> 0]

EmptyMap == [x \in {} |-> 0]
MapSet(f, key, val) ==
    [x \in DOMAIN f \cup {key} |-> IF x = key THEN val ELSE f[x]]
MapPop(f, key) == [x \in DOMAIN f \ {key} |-> f[x]]

\* int(time.time()) at clock value c.
IntTime(c) == c \div Res

(***************************************************************************)
(* Functions of the program                                                *)
(***************************************************************************)
\* format_message without the test of line 29: the tag always has a
\* category part.
format_message_always_category(url, msg_attrs, handle) ==
    IF Truthy(handle)
    THEN <<"[", handle, "-", Str(msg_attrs[2]), "] ", Str(msg_attrs[1]),
           " | ", Str(url), "\n">>
    ELSE <<Str(url), "\n">>

\* format_message: the line as the sequence of its pieces.
format_message(url, msg_attrs, handle) ==
    IF Truthy(handle)
    THEN LET tag == IF Truthy(msg_attrs[2])
                    THEN <<handle, "-", msg_attrs[2]>>
                    ELSE <<handle>>
         IN  <<"[">> \o tag \o <<"] ", Str(msg_attrs[1]), " | ", Str(url), "\n">>
    ELSE <<Str(url), "\n">>

\* ParseEntry that keeps what news already holds for the link.
ParseEntryKeepFirst(entry, n) ==
    IF entry.link \in DOMAIN n
    THEN n
    ELSE MapSet(n, entry.link, <<entry.title, entry.category>>)

\* The loop body of parse_news for one entry. The test of line 162 is on the
\* string literals 'link' and 'title'.
ParseEntry(entry, n) ==
    IF ~Truthy("link") /\ ~Truthy("title")
    THEN n
    ELSE MapSet(n, entry.link, <<entry.title, entry.category>>)

\* parse_news(data, news): data is the sequence of the feed's entries.
RECURSIVE parse_news(_, _)
parse_news(data, n) ==
    IF data = <<>> THEN n
    ELSE parse_news(Tail(data), ParseEntry(Head(data), n))

\* int(value) of a cache value.
ToInt(val) ==
    CASE val.k = "int" -> [exc |-> "none", v |-> val.v]
      [] val.k = "str" -> [exc |-> "ValueError", v |-> 0]
      [] OTHER         -> [exc |-> "TypeError", v |-> 0]

\* The except clause of scrub_cache: the exceptions it catches.
ScrubCatches(exc) == exc = "ValueError"

\* IsExpired with <= for <: a record expiring exactly now is dropped.
IsExpiredOffByOne(expiration, time_now) == expiration * Res <= time_now

\* The test of line 207.
IsExpired(expiration, time_now) == expiration * Res < time_now

\* scrub_cache that stops after the first record it removes.
scrub_cache_first_only(c, time_now) ==
    LET raises == \E key \in DOMAIN c :
                     /\ ToInt(c[key]).exc # "none"
                     /\ ~ScrubCatches(ToInt(c[key]).exc)
        drop == {key \in DOMAIN c :
                     \/ ToInt(c[key]).exc # "none"
                     \/ IsExpired(ToInt(c[key]).v, time_now)}
        keep == IF drop = {} THEN DOMAIN c
                ELSE DOMAIN c \ {CHOOSE key \in drop : TRUE}
    IN  [raised |-> raises, cache |-> [key \in keep |-> c[key]]]

\* scrub_cache(logger, cache) with time.time() = time_now: whether it
\* raises, and the cache it leaves otherwise.
scrub_cache(c, time_now) ==
    LET raises == \E key \in DOMAIN c :
                     /\ ToInt(c[key]).exc # "none"
                     /\ ~ScrubCatches(ToInt(c[key]).exc)
        keep == {key \in DOMAIN c :
                     /\ ToInt(c[key]).exc = "none"
                     /\ ~IsExpired(ToInt(c[key]).v, time_now)}
    IN  [raised |-> raises, cache |-> [key \in keep |-> c[key]]]

\* ReconcileCache without line 99: a known key keeps its old expiration.
ReconcileCacheStale(c, key, t, ttl) == c

\* Lines 97-99 for one key, at int(time.time()) = t.
ReconcileCache(c, key, t, ttl) ==
    IF key \in DOMAIN c THEN MapSet(c, key, IntV(t + ttl)) ELSE c

\* ReconcileNews without line 100: a known key stays in news.
ReconcileNewsKeep(n, c, key) == n

\* Lines 97 and 100 for one key.
ReconcileNews(n, c, key) ==
    IF key \in DOMAIN c THEN MapPop(n, key) ELSE n

RECURSIVE reconcile_skipping(_, _, _, _, _)
\* reconcile whose loop loses the key that follows one it pops.
reconcile_skipping(keys, n, c, t, ttl) ==
    IF keys = <<>> THEN [news |-> n, cache |-> c]
    ELSE IF Head(keys) \in DOMAIN c
         THEN reconcile_skipping(
                 IF Len(keys) > 1 THEN Tail(Tail(keys)) ELSE <<>>,
                 ReconcileNews(n, c, Head(keys)),
                 ReconcileCache(c, Head(keys), t, ttl), t, ttl)
         ELSE reconcile_skipping(Tail(keys), n, c, t, ttl)

RECURSIVE reconcile(_, _, _, _, _)
\* Lines 96-100: the loop over the list keys = news.keys(), with
\* int(time.time()) = t throughout.
reconcile(keys, n, c, t, ttl) ==
    IF keys = <<>> THEN [news |-> n, cache |-> c]
    ELSE reconcile(Tail(keys),
                   ReconcileNews(n, c, Head(keys)),
                   ReconcileCache(c, Head(keys), t, ttl), t, ttl)

\* CommitCache that builds the cache anew from news and loses the records
\* of the urls that are not in it.
CommitCacheNewOnly(c, n, expiration) ==
    [key \in DOMAIN n |-> IntV(expiration)]

\* Lines 105-107: every key left in news gets the expiration.
CommitCache(c, n, expiration) ==
    [key \in DOMAIN c \cup DOMAIN n |->
        IF key \in DOMAIN n THEN IntV(expiration) ELSE c[key]]

\* The cache file: absent, not unpicklable, or a pickled dict.
FileAbsent == [kind |-> "absent", map |-> EmptyMap]
FileCorrupt == [kind |-> "corrupt", map |-> EmptyMap]
FilePickle(m) == [kind |-> "pickle", map |-> m]

\* read_cache that takes an unreadable pickle for an empty cache.
read_cache_lenient(cache_file, f) ==
    IF ~Truthy(cache_file) \/ f.kind # "pickle"
    THEN [raised |-> FALSE, cache |-> EmptyMap]
    ELSE [raised |-> FALSE, cache |-> f.map]

\* read_cache: what it returns, or that pickle.load raises.
read_cache(cache_file, f) ==
    IF ~Truthy(cache_file) THEN [raised |-> FALSE, cache |-> EmptyMap]
    ELSE IF f.kind = "absent" THEN [raised |-> FALSE, cache |-> EmptyMap]
    ELSE IF f.kind = "corrupt" THEN [raised |-> TRUE, cache |-> EmptyMap]
    ELSE [raised |-> FALSE, cache |-> f.map]

\* write_cache that adds its records to those the file holds.
write_cache_merge(data, cache_file, f) ==
    IF ~Truthy(cache_file) THEN f
    ELSE FilePickle([key \in DOMAIN f.map \cup DOMAIN data |->
                        IF key \in DOMAIN data THEN data[key]
                        ELSE f.map[key]])

\* write_cache: the file it leaves.
write_cache(data, cache_file, f) ==
    IF ~Truthy(cache_file) THEN f ELSE FilePickle(data)

(***************************************************************************)
(* Inputs                                                                  *)
(***************************************************************************)
\* Entries a feed document can hold: link, title and category as
\* feedparser gives them, None where the entry has none.
FeedEntries ==
    { [link |-> "u1", title |-> "A", category |-> "cat"],
      [link |-> "u1", title |-> "B", category |-> PyNone],
      [link |-> "u2", title |-> "A", category |-> PyNone],
      [link |-> PyNone, title |-> PyNone, category |-> PyNone] }

RECURSIVE SeqsUpTo(_, _)
SeqsUpTo(S, n) ==
    IF n = 0 THEN {<<>>}
    ELSE LET shorter == SeqsUpTo(S, n - 1)
         IN  shorter \cup {Append(q, e) : q \in shorter, e \in S}

\* What get_rss gives for one feed: None (the request failed), or the
\* text of a document, modelled by the entries feedparser finds in it.
FeedDocs == SeqsUpTo(FeedEntries, MaxEntries)
FetchResults == {[ok |-> FALSE, entries |-> <<>>]}
                    \cup {[ok |-> TRUE, entries |-> d] : d \in FeedDocs}

\* Command lines (parse_args). output_exists is os.path.exists(args.output).
TTLs == {-1, 0, 1}
ArgSets ==
    [ cache_expiration : TTLs,
      cache_init       : BOOLEAN,
      handle           : {PyNone, "bot"},
      output_exists    : BOOLEAN,
      cache            : {PyNone, "cache.pkl"},
      nfeeds           : 1..MaxFeeds ]

\* Contents the cache file can have before the first invocation.
InitMaps ==
    { EmptyMap,
      [x \in {"u1"} |-> IntV(1)],
      [x \in {"u1"} |-> StrV],
      [x \in {"u2"} |-> NoneV],
      [x \in URLs |-> IF x = "u1" THEN IntV(1) ELSE IntV(0)],
      [x \in URLs |-> IF x = "u1" THEN IntV(1) ELSE StrV],
      [x \in URLs |-> IF x = "u1" THEN IntV(1) ELSE NoneV] }
InitFiles == {FileAbsent, FileCorrupt} \cup {FilePickle(m) : m \in InitMaps}

(***************************************************************************)
(* State                                                                   *)
(***************************************************************************)
VARIABLES
    clock,      \* time.time(), in 1/Res seconds
    file,       \* the cache file
    output,     \* the lines appended to the output file, oldest first
    runs,       \* invocations started so far
    other,      \* a second invocation running at the same time, if any
    pc,         \* where the current invocation is
    args,       \* its command line
    feedIdx,    \* index of the feed the loop of line 81 is at
    news,       \* the dict news
    cache,      \* the dict cache
    todo,       \* keys the current for loop has yet to visit
    exitCode,   \* exit status of the invocation that ended last
    why,        \* how it ended
    \* history of the current invocation
    fileStart,  \* the cache file when it started
    seen,       \* the entries the feeds gave so far, in order
    outStart,   \* Len(output) when it started
    fetchFailed,\* get_rss returned None for some feed
    loaded,     \* what read_cache returned
    scrubNow,   \* time_now of scrub_cache
    scrubbed,   \* cache after scrub_cache
    parsed,     \* news at line 89
    stamp,      \* key -> int(time.time()) used when cache[key] was assigned
    stalled,    \* urls whose write raised ValueError before it completed
    late,       \* urls whose write completed and then raised ValueError
    wrote,      \* urls whose line was written
    \* the same invocation with --cache-init, for an invocation without it:
    \* same feeds, same cache file, same readings of the clock
    twinNews,   \* its news at line 105
    twinCache,  \* its cache at line 109
    twinFile    \* the cache file it leaves

vars == <<clock, file, output, runs, other, pc, args, feedIdx, news, cache, todo,
          exitCode, why, fileStart, seen, outStart, fetchFailed, loaded, scrubNow,
          scrubbed, parsed, stamp, stalled, late, wrote, twinNews,
          twinCache, twinFile>>

\* The history variables an action leaves alone unless it says otherwise.
twin == <<twinNews, twinCache, twinFile>>
hist == <<fileStart, seen, outStart, fetchFailed, loaded, scrubNow, scrubbed,
          parsed, stamp, stalled, late, wrote, twin>>

\* No second invocation is running.
NoOther == [pc |-> "none", news |-> EmptyMap, cache |-> EmptyMap, wrote |-> {}]

NoArgs == [cache_expiration |-> 0, cache_init |-> FALSE, handle |-> PyNone,
           output_exists |-> FALSE, cache |-> PyNone, nfeeds |-> 1]

InitWith(files) ==
    /\ clock = 0
    /\ file \in files
    /\ output = <<>>
    /\ runs = 0
    /\ other = NoOther
    /\ pc = "idle"
    /\ args = NoArgs
    /\ feedIdx = 1
    /\ news = EmptyMap
    /\ cache = EmptyMap
    /\ todo = {}
    /\ exitCode = 0
    /\ why = "none"
    /\ fileStart = file
    /\ seen = <<>>
    /\ outStart = 0
    /\ fetchFailed = FALSE
    /\ loaded = EmptyMap
    /\ scrubNow = 0
    /\ scrubbed = EmptyMap
    /\ parsed = EmptyMap
    /\ stamp = EmptyMap
    /\ stalled = {}
    /\ late = {}
    /\ wrote = {}
    /\ twinNews = EmptyMap
    /\ twinCache = EmptyMap
    /\ twinFile = file

Init == InitWith(InitFiles)

\* sys.exit(code), or an uncaught exception (status 1).
Exit(code, reason) ==
    /\ pc' = "done"
    /\ exitCode' = code
    /\ why' = reason

(***************************************************************************)
(* Steps of main                                                           *)
(***************************************************************************)
\* Time passes while the program runs.
Tick ==
    /\ pc # "done"
    /\ clock < MaxClock
    /\ clock' = clock + 1
    /\ UNCHANGED <<file, output, runs, other, pc, args, feedIdx, news, cache, todo,
                   exitCode, why, hist>>

\* ConfigError without the test of line 76.
ConfigErrorTtlOnly(a) == a.cache_expiration < 0

\* The tests of lines 72 and 76.
ConfigError(a) == a.cache_expiration < 0 \/ ~a.output_exists

\* Lines 66-80: an invocation parses its arguments and checks them.
Invoke(a) ==
    /\ runs' = runs + 1
    /\ args' = a
    /\ feedIdx' = 1
    /\ news' = EmptyMap
    /\ cache' = EmptyMap
    /\ todo' = {}
    /\ fileStart' = file
    /\ seen' = <<>>
    /\ outStart' = Len(output)
    /\ fetchFailed' = FALSE
    /\ loaded' = EmptyMap
    /\ scrubNow' = 0
    /\ scrubbed' = EmptyMap
    /\ parsed' = EmptyMap
    /\ stamp' = EmptyMap
    /\ stalled' = {}
    /\ late' = {}
    /\ wrote' = {}
    /\ twinNews' = EmptyMap
    /\ twinCache' = EmptyMap
    /\ twinFile' = file
    /\ IF ConfigError(a)
       THEN Exit(1, "config")
       ELSE pc' = "fetch" /\ exitCode' = 0 /\ why' = "none"
    /\ UNCHANGED <<clock, file, output, other>>

\* The program is started.
Start(a) ==
    /\ pc = "idle"
    /\ Invoke(a)

\* FetchFailed that lets a failed fetch pass as an empty document.
FetchFailedIgnored(data) == FALSE

\* The test of line 83 on what get_rss returned.
FetchFailed(data) == ~data.ok

\* Lines 81-87, one iteration: get_rss, then exit or parse_news.
FetchStep(data) ==
    /\ pc = "fetch"
    /\ fetchFailed' = (fetchFailed \/ ~data.ok)
    /\ IF FetchFailed(data)
       THEN /\ Exit(1, "fetch")
            /\ UNCHANGED <<news, feedIdx>>
       ELSE /\ news' = parse_news(data.entries, news)
            /\ feedIdx' = feedIdx + 1
            /\ pc' = IF feedIdx = args.nfeeds THEN "check" ELSE "fetch"
            /\ UNCHANGED <<exitCode, why>>
    /\ UNCHANGED <<clock, file, output, runs, other, args, cache, todo, fileStart,
                   outStart, loaded, scrubNow, scrubbed, parsed, stamp,
                   stalled, late, wrote, twin>>

\* The iteration, in a model that keeps no record of the entries it fetched.
Fetch(data) ==
    /\ FetchStep(data)
    /\ UNCHANGED seen

\* The iteration, with the entries the feed gave recorded in seen.
FetchRecorded(data) ==
    /\ FetchStep(data)
    /\ seen' = IF data.ok THEN seen \o data.entries ELSE seen

\* CheckNews without lines 89-91.
CheckNewsIgnored ==
    /\ pc = "check"
    /\ pc' = "load"
    /\ UNCHANGED <<clock, file, output, runs, other, args, feedIdx, news, cache,
                   todo, exitCode, why, hist>>

\* Lines 89-91.
CheckNews ==
    /\ pc = "check"
    /\ IF news = EmptyMap
       THEN Exit(0, "nonews")
       ELSE pc' = "load" /\ UNCHANGED <<exitCode, why>>
    /\ UNCHANGED <<clock, file, output, runs, other, args, feedIdx, news, cache,
                   todo, hist>>

\* Line 93.
ReadCache ==
    /\ pc = "load"
    /\ LET r == read_cache(args.cache, file)
       IN  IF r.raised
           THEN /\ Exit(1, "unpickle")
                /\ UNCHANGED <<cache, loaded>>
           ELSE /\ cache' = r.cache
                /\ loaded' = r.cache
                /\ pc' = "scrub"
                /\ UNCHANGED <<exitCode, why>>
    /\ UNCHANGED <<clock, file, output, runs, other, args, feedIdx, news, todo,
                   fileStart, seen, outStart, fetchFailed, scrubNow, scrubbed,
                   parsed, stamp, stalled, late, wrote, twin>>

\* Line 94, and the list news.keys() of line 96.
ScrubCache ==
    /\ pc = "scrub"
    /\ scrubNow' = clock
    /\ parsed' = news
    /\ LET r == scrub_cache(cache, clock)
       IN  IF r.raised
           THEN /\ Exit(1, "scrub")
                /\ UNCHANGED <<cache, scrubbed, todo>>
           ELSE /\ cache' = r.cache
                /\ scrubbed' = r.cache
                /\ todo' = DOMAIN news
                /\ pc' = "reconcile"
                /\ UNCHANGED <<exitCode, why>>
    /\ UNCHANGED <<clock, file, output, runs, other, args, feedIdx, news,
                   fileStart, seen, outStart, fetchFailed, loaded, stamp, stalled,
                   late, wrote, twin>>

\* Lines 96-100, one iteration, for whichever key the list gives next.
ReconcileKey(key) ==
    /\ pc = "reconcile"
    /\ key \in todo
    /\ todo' = todo \ {key}
    /\ cache' = ReconcileCache(cache, key, IntTime(clock),
                               args.cache_expiration)
    /\ news' = ReconcileNews(news, cache, key)
    /\ stamp' = IF key \in DOMAIN cache
                THEN MapSet(stamp, key, IntTime(clock)) ELSE stamp
    /\ UNCHANGED <<clock, file, output, runs, other, pc, args, feedIdx, exitCode,
                   why, fileStart, seen, outStart, fetchFailed, loaded, scrubNow,
                   scrubbed, parsed, stalled, late, wrote, twin>>

\* GateOpen that forgets --cache-init.
GateOpenAlways(cache_init) == TRUE

\* Whether line 102 lets write_data run.
GateOpen(cache_init) == ~cache_init

\* Lines 102-103 and 239-240: write_data is called, or skipped.
Gate ==
    /\ pc = "reconcile"
    /\ todo = {}
    /\ IF GateOpen(args.cache_init) /\ DOMAIN news # {}
       THEN pc' = "write" /\ todo' = DOMAIN news
       ELSE pc' = "commit" /\ todo' = {}
    /\ twinNews' = news
    /\ UNCHANGED <<clock, file, output, runs, other, args, feedIdx, news, cache,
                   exitCode, why, fileStart, seen, outStart, fetchFailed, loaded,
                   scrubNow, scrubbed, parsed, stamp, stalled, late, wrote,
                   twinCache, twinFile>>

\* How one iteration of write_data's loop can go: the line is written and
\* the alarm is cancelled; the alarm raises ValueError before the write has
\* completed; the alarm raises ValueError after the write, before line 247.
WriteOutcomes == {"written", "stalled", "late"}

\* DropFailed without line 252: the entry stays in data.
DropFailedKeep(data, url) == data

\* Line 252, run by the except clause.
DropFailed(data, url) == MapPop(data, url)

\* signal_handler raising an exception that is no ValueError.
signal_handler_interrupt == "KeyboardInterrupt"

\* Lines 212-214: what the handler of SIGALRM raises.
signal_handler == "ValueError"

\* Line 249: the exceptions the except clause of write_data catches.
WriteCatches(exc) == exc = "ValueError"

\* Lines 240-254, one iteration. An exception that line 249 does not catch
\* leaves write_data and main: the interpreter exits with status 1.
WriteEntry(url, outcome) ==
    /\ pc = "write"
    /\ url \in todo
    /\ todo' = todo \ {url}
    /\ LET msg == format_message(url, news[url], args.handle)
       IN  /\ output' = IF outcome = "stalled" THEN output
                        ELSE Append(output, msg)
           /\ wrote' = IF outcome = "stalled" THEN wrote
                       ELSE wrote \cup {url}
    /\ stalled' = IF outcome = "stalled" THEN stalled \cup {url} ELSE stalled
    /\ late' = IF outcome = "late" THEN late \cup {url} ELSE late
    /\ IF outcome = "written" \/ WriteCatches(signal_handler)
       THEN /\ news' = IF outcome = "written" THEN news
                       ELSE DropFailed(news, url)
            /\ pc' = IF todo = {url} THEN "commit" ELSE "write"
            /\ UNCHANGED <<exitCode, why>>
       ELSE /\ news' = news
            /\ Exit(1, "write")
    /\ UNCHANGED <<clock, file, runs, other, args, feedIdx, cache, fileStart, seen,
                   outStart, fetchFailed, loaded, scrubNow, scrubbed, parsed,
                   stamp, twin>>

\* Lines 105-107.
Commit ==
    /\ pc = "commit"
    /\ cache' = CommitCache(cache, news,
                            IntTime(clock) + args.cache_expiration)
    /\ twinCache' = CommitCache(cache, twinNews,
                                IntTime(clock) + args.cache_expiration)
    /\ stamp' = [key \in DOMAIN stamp \cup DOMAIN news |->
                    IF key \in DOMAIN news THEN IntTime(clock)
                    ELSE stamp[key]]
    /\ pc' = "save"
    /\ UNCHANGED <<clock, file, output, runs, other, args, feedIdx, news, todo,
                   exitCode, why, fileStart, seen, outStart, fetchFailed, loaded,
                   scrubNow, scrubbed, parsed, stalled, late, wrote,
                   twinNews, twinFile>>

\* Line 109, then the interpreter exits with status 0.
WriteCache ==
    /\ pc = "save"
    /\ file' = write_cache(cache, args.cache, file)
    /\ twinFile' = write_cache(twinCache, args.cache, file)
    /\ Exit(0, "ok")
    /\ UNCHANGED <<clock, output, runs, other, args, feedIdx, news, cache, todo,
                   fileStart, seen, outStart, fetchFailed, loaded, scrubNow,
                   scrubbed, parsed, stamp, stalled, late, wrote, twinNews,
                   twinCache>>

\* One invocation, on any cache file, with any command line and feeds.
Next ==
    \/ Tick
    \/ \E a \in ArgSets : Start(a)
    \/ \E data \in FetchResults : Fetch(data)
    \/ CheckNews
    \/ ReadCache
    \/ ScrubCache
    \/ \E key \in Keys : ReconcileKey(key)
    \/ Gate
    \/ \E url \in Keys, outcome \in WriteOutcomes : WriteEntry(url, outcome)
    \/ Commit
    \/ WriteCache

Spec == Init /\ [][Next]_vars

(***************************************************************************)
(* Invocations one after another on one cache file, as a scheduler runs    *)
(* them: the cache file does not exist before the first.                   *)
(***************************************************************************)
RunArgSets ==
    [ cache_expiration : {0, 1},
      cache_init       : BOOLEAN,
      handle           : {PyNone},
      output_exists    : {TRUE},
      cache            : {"cache.pkl"},
      nfeeds           : {1} ]

RunEntries == {e \in FeedEntries : e.title = "A"}
RunDocs == {<<>>} \cup { <<e>> : e \in RunEntries }
               \cup { <<e, f>> : e \in RunEntries, f \in RunEntries }
RunFetchResults == {[ok |-> TRUE, entries |-> d] : d \in RunDocs}

\* The scheduler starts the program again.
Again(a) ==
    /\ pc = "done"
    /\ runs < MaxRuns
    /\ Invoke(a)

\* Time passes between two invocations.
Wait ==
    /\ pc = "done"
    /\ runs < MaxRuns
    /\ clock < MaxClock
    /\ clock' = clock + 1
    /\ UNCHANGED <<file, output, runs, other, pc, args, feedIdx, news, cache, todo,
                   exitCode, why, hist>>

InitRuns == InitWith({FileAbsent})

NextRuns ==
    \/ Tick
    \/ Wait
    \/ \E a \in RunArgSets : Start(a)
    \/ \E a \in RunArgSets : Again(a)
    \/ \E data \in RunFetchResults : Fetch(data)
    \/ CheckNews
    \/ ReadCache
    \/ ScrubCache
    \/ \E key \in Keys : ReconcileKey(key)
    \/ Gate
    \/ \E url \in Keys, outcome \in WriteOutcomes : WriteEntry(url, outcome)
    \/ Commit
    \/ WriteCache

SpecRuns == InitRuns /\ [][NextRuns]_vars

(***************************************************************************)
(* One invocation with the entries of its feeds recorded as they come, to  *)
(* compare what becomes of a url with what each feed said of it.           *)
(***************************************************************************)
FeedArgSets ==
    [ cache_expiration : {1},
      cache_init       : {FALSE},
      handle           : {"bot"},
      output_exists    : {TRUE},
      cache            : {"cache.pkl"},
      nfeeds           : 1..MaxFeeds ]

\* The feeds give entries with a link, and no fetch fails.
RecordedEntries == {e \in FeedEntries : e.link # PyNone}
RecordedResults ==
    {[ok |-> TRUE, entries |-> d] :
        d \in SeqsUpTo(RecordedEntries, MaxEntries)}

FeedFiles == {FileAbsent, FilePickle([u \in {"u2"} |-> IntV(1)])}

InitFeeds == InitWith(FeedFiles)

NextFeeds ==
    \/ Tick
    \/ \E a \in FeedArgSets : Start(a)
    \/ \E data \in RecordedResults : FetchRecorded(data)
    \/ CheckNews
    \/ ReadCache
    \/ ScrubCache
    \/ \E key \in Keys : ReconcileKey(key)
    \/ Gate
    \/ \E url \in Keys, outcome \in WriteOutcomes : WriteEntry(url, outcome)
    \/ Commit
    \/ WriteCache

SpecFeeds == InitFeeds /\ [][NextFeeds]_vars

(***************************************************************************)
(* scrub_cache and the loop of lines 96-100 on their own, on any cache and *)
(* any news, with the clock standing still.                                *)
(***************************************************************************)
\* A state in which main is at position p with one of the given caches and
\* one of the given news.
InitLab(p, files, others, caches, newss, argss) ==
    /\ clock \in 0..MaxClock
    /\ file \in files
    /\ output = <<>>
    /\ runs = 1
    /\ other \in others
    /\ pc = p
    /\ args \in argss
    /\ feedIdx = 1
    /\ news \in newss
    /\ cache \in caches
    /\ todo = DOMAIN news
    /\ exitCode = 0
    /\ why = "none"
    /\ fileStart = file
    /\ seen = <<>>
    /\ outStart = 0
    /\ fetchFailed = FALSE
    /\ loaded = cache
    /\ scrubNow = clock
    /\ scrubbed = cache
    /\ parsed = news
    /\ stamp = EmptyMap
    /\ stalled = {}
    /\ late = {}
    /\ wrote = {}
    /\ twinNews = EmptyMap
    /\ twinCache = EmptyMap
    /\ twinFile = file

\* The values a record of a cache snapshot can hold.
ScrubValues == {IntV(t) : t \in 0..IntTime(MaxClock) + 1} \cup {StrV, NoneV}

\* The cache snapshots scrub_cache is given.
ScrubSnapshots == UNION {[S -> ScrubValues] : S \in SUBSET Keys}

\* Line 94 once more, on the cache the first call left, at the same time.
ScrubAgain ==
    /\ pc = "reconcile"
    /\ LET r == scrub_cache(cache, scrubNow)
       IN  IF r.raised
           THEN /\ Exit(1, "scrub")
                /\ UNCHANGED cache
           ELSE /\ cache' = r.cache
                /\ pc' = "rescrubbed"
                /\ UNCHANGED <<exitCode, why>>
    /\ UNCHANGED <<clock, file, output, runs, other, args, feedIdx, news, todo,
                   hist>>

InitScrub ==
    InitLab("scrub", {FileAbsent}, {NoOther}, ScrubSnapshots, {EmptyMap},
            {NoArgs})

NextScrub ==
    \/ ScrubCache
    \/ ScrubAgain

SpecScrub == InitScrub /\ [][NextScrub]_vars

\* The caches scrub_cache can leave, and the news parse_news can.
ScrubbedCaches ==
    UNION {[S -> {IntV(t) : t \in 1..2}] : S \in SUBSET URLs}

ParsedNews ==
    UNION {[S -> {<<"A", PyNone>>}] : S \in SUBSET Keys}

\* The lists that news.keys() can be for the keys S.
Orders(S) ==
    {o \in [1..Cardinality(S) -> S] :
        \A i, j \in 1..Cardinality(S) : i # j => o[i] # o[j]}

\* Lines 96-100, the whole loop, over the keys in one order.
ReconcileAll(order) ==
    /\ pc = "reconcile"
    /\ LET r == reconcile(order, news, cache, IntTime(clock),
                          args.cache_expiration)
       IN  /\ news' = r.news
           /\ cache' = r.cache
    /\ todo' = {}
    /\ pc' = "reconciled"
    /\ UNCHANGED <<clock, file, output, runs, other, args, feedIdx, exitCode, why,
                   hist>>

InitReconcile ==
    InitLab("reconcile", {FileAbsent}, {NoOther}, ScrubbedCaches, ParsedNews,
            {[NoArgs EXCEPT !.cache_expiration = ttl] : ttl \in {0, 1}})

NextReconcile == \E order \in Orders(todo) : ReconcileAll(order)

SpecReconcile == InitReconcile /\ [][NextReconcile]_vars

(***************************************************************************)
(* Two invocations at the same time on one cache file and one output, as   *)
(* when a scheduler starts the program before the last run has ended. Both *)
(* have fetched their feeds. The first goes through the steps of main      *)
(* above; the second, held in other, goes through the same lines with the  *)
(* same operators, one step for each of load, scrub and reconcile, write,  *)
(* lines 105-107, and persist.                                             *)
(***************************************************************************)
TwoArgs == [cache_expiration |-> 1, cache_init |-> FALSE, handle |-> PyNone,
            output_exists |-> TRUE, cache |-> "cache.pkl", nfeeds |-> 1]

\* What the two invocations parsed.
TwoNews ==
    UNION {[S -> {<<"A", PyNone>>}] : S \in SUBSET URLs \ {{}}}

\* The second invocation, about to call read_cache.
TwoOthers ==
    {[pc |-> "load", news |-> n, cache |-> EmptyMap, wrote |-> {}] :
        n \in TwoNews}

\* The cache file when the two start.
TwoFiles == {FileAbsent, FilePickle([u \in {"u1"} |-> IntV(2)])}

RECURSIVE write_all(_, _, _)
\* Lines 239-254 when no write stalls: the lines appended for the keys of
\* data in the order of the list data.keys().
write_all(order, data, handle) ==
    IF order = <<>> THEN <<>>
    ELSE <<format_message(Head(order), data[Head(order)], handle)>>
            \o write_all(Tail(order), data, handle)

\* Line 93 in the second invocation.
OtherLoad ==
    /\ other.pc = "load"
    /\ LET r == read_cache(args.cache, file)
       IN  other' = IF r.raised THEN [other EXCEPT !.pc = "failed"]
                    ELSE [other EXCEPT !.pc = "reconcile", !.cache = r.cache]
    /\ UNCHANGED <<clock, file, output, runs, pc, args, feedIdx, news, cache,
                   todo, exitCode, why, hist>>

\* Lines 94-100 in the second invocation.
OtherReconcile(order) ==
    /\ other.pc = "reconcile"
    /\ LET s == scrub_cache(other.cache, clock)
           r == reconcile(order, other.news, s.cache, IntTime(clock),
                          args.cache_expiration)
       IN  other' = IF s.raised THEN [other EXCEPT !.pc = "failed"]
                    ELSE [other EXCEPT !.pc = "write", !.news = r.news,
                                       !.cache = r.cache]
    /\ UNCHANGED <<clock, file, output, runs, pc, args, feedIdx, news, cache,
                   todo, exitCode, why, hist>>

\* Lines 102-103 in the second invocation.
OtherWrite(order) ==
    /\ other.pc = "write"
    /\ output' = IF GateOpen(args.cache_init)
                 THEN output \o write_all(order, other.news, args.handle)
                 ELSE output
    /\ other' = [other EXCEPT !.pc = "commit",
                              !.wrote = IF GateOpen(args.cache_init)
                                        THEN DOMAIN other.news ELSE {}]
    /\ UNCHANGED <<clock, file, runs, pc, args, feedIdx, news, cache, todo,
                   exitCode, why, hist>>

\* Lines 105-107 in the second invocation.
OtherCommit ==
    /\ other.pc = "commit"
    /\ other' = [other EXCEPT
                    !.pc = "save",
                    !.cache = CommitCache(other.cache, other.news,
                                 IntTime(clock) + args.cache_expiration)]
    /\ UNCHANGED <<clock, file, output, runs, pc, args, feedIdx, news, cache,
                   todo, exitCode, why, hist>>

\* Line 109 in the second invocation.
OtherSave ==
    /\ other.pc = "save"
    /\ file' = write_cache(other.cache, args.cache, file)
    /\ other' = [other EXCEPT !.pc = "done"]
    /\ UNCHANGED <<clock, output, runs, pc, args, feedIdx, news, cache, todo,
                   exitCode, why, hist>>

InitTwo ==
    InitLab("load", TwoFiles, TwoOthers, {EmptyMap}, TwoNews, {TwoArgs})

NextTwo ==
    \/ Tick
    \/ ReadCache
    \/ ScrubCache
    \/ \E key \in Keys : ReconcileKey(key)
    \/ Gate
    \/ \E url \in Keys, outcome \in WriteOutcomes : WriteEntry(url, outcome)
    \/ Commit
    \/ WriteCache
    \/ OtherLoad
    \/ \E order \in Orders(DOMAIN other.news) : OtherReconcile(order)
    \/ \E order \in Orders(DOMAIN other.news) : OtherWrite(order)
    \/ OtherCommit
    \/ OtherSave

SpecTwo == InitTwo /\ [][NextTwo]_vars

(***************************************************************************)
(* Properties                                                              *)
(***************************************************************************)
\* The invocation ran to the end of main.
Completed == pc = "done" /\ why = "ok"

\* scrub_cache has returned.
ScrubDone == pc \in {"reconcile", "write", "commit", "save"} \/ Completed

\* The value is one int() accepts.
WellFormed(val) == ToInt(val).exc = "none"

\* c holds for key a well-formed record that has not expired at time now.
Alive(c, key, now) ==
    /\ key \in DOMAIN c
    /\ WellFormed(c[key])
    /\ now <= ToInt(c[key]).v * Res

\* The clock readings an invocation can have used once it has scrubbed.
Readings == IntTime(scrubNow)..IntTime(clock)

Reconciled ==
    IF pc = "reconcile" THEN DOMAIN parsed \ todo
    ELSE IF pc \in {"write", "commit", "save"} \/ Completed
         THEN DOMAIN parsed
         ELSE {}

\* C2: within one invocation, a parsed entry whose url is a key of the
\* scrubbed cache is taken out of news and its record is set to now + ttl,
\* now being the clock the invocation read then; an entry whose url is not a
\* key of the scrubbed cache stays in news unchanged and, without
\* --cache-init, goes through write_data.
C2_KnownExcludedNewKept ==
    \A u \in Reconciled :
        IF u \in DOMAIN scrubbed
        THEN /\ u \notin DOMAIN news
             /\ u \notin wrote
             /\ u \in DOMAIN stamp
             /\ stamp[u] \in Readings
             /\ cache[u] = IntV(stamp[u] + args.cache_expiration)
        ELSE /\ pc = "reconcile" => u \in DOMAIN news /\ news[u] = parsed[u]
             /\ (pc = "write" /\ ~args.cache_init)
                   => u \in todo \cup wrote \cup stalled
             /\ ((pc \in {"commit", "save"} \/ Completed)
                    /\ ~args.cache_init)
                   => u \in wrote \cup stalled

\* C2 happens: the loop is over with one known and one new entry.
C2_Witness ==
    /\ pc = "reconcile"
    /\ todo = {}
    /\ "u1" \in DOMAIN parsed /\ "u1" \in DOMAIN scrubbed
    /\ "u2" \in DOMAIN parsed /\ "u2" \notin DOMAIN scrubbed

\* C3: with --cache-init an invocation writes nothing to the output, and
\* the cache file it leaves holds every parsed url with expiration
\* now + ttl, now being the clock the invocation read when it set the record.
C3_BootstrapSilentButCached ==
    (runs > 0 /\ args.cache_init) =>
        /\ Len(output) = outStart
        /\ wrote = {}
        /\ (Completed /\ Truthy(args.cache)) =>
              /\ file.kind = "pickle"
              /\ \A u \in DOMAIN parsed :
                    /\ u \in DOMAIN file.map
                    /\ u \in DOMAIN stamp
                    /\ stamp[u] \in Readings
                    /\ file.map[u] = IntV(stamp[u] + args.cache_expiration)

\* C3 happens: a bootstrap invocation ends with a known and a new url.
C3_Witness ==
    /\ Completed
    /\ args.cache_init
    /\ Truthy(args.cache)
    /\ "u1" \in DOMAIN parsed /\ "u1" \in DOMAIN scrubbed
    /\ "u2" \in DOMAIN parsed /\ "u2" \notin DOMAIN scrubbed

\* C4 as stated: the url of an entry whose write stalled past the timeout
\* is in the cache file the invocation leaves.
C4_StalledStillCached ==
    (Completed /\ Truthy(args.cache)) =>
        \A u \in stalled : u \notin wrote /\ u \in DOMAIN file.map

\* C4, amended: an entry whose write stalled past the timeout is not
\* written, and the cache file the invocation leaves has no record for it.
C4_StalledNotCached ==
    (Completed /\ Truthy(args.cache)) =>
        /\ file.kind = "pickle"
        /\ \A u \in stalled : u \notin wrote /\ u \notin DOMAIN file.map

\* C4 happens: an invocation ends after one write stalled and one did not.
C4_Witness ==
    /\ Completed
    /\ Truthy(args.cache)
    /\ stalled # {}
    /\ wrote # {}

\* The keys of an invocation whose write raised ValueError.
TimedOut == stalled \cup late

\* C5 as stated: an invocation without --cache-init leaves the cache file
\* that the same invocation with --cache-init leaves.
C5_GateNeverAffectsCache ==
    (Completed /\ ~args.cache_init) => file = twinFile

\* C5, amended: an invocation without --cache-init leaves the cache file
\* that the same invocation with --cache-init leaves, less the records of
\* the urls whose write raised the timeout, which the latter holds.
C5_GateAffectsOnlyTimedOut ==
    (Completed /\ ~args.cache_init) =>
        IF Truthy(args.cache)
        THEN /\ file.kind = "pickle"
             /\ twinFile.kind = "pickle"
             /\ TimedOut \subseteq DOMAIN twinFile.map
             /\ file.map = [u \in DOMAIN twinFile.map \ TimedOut |->
                               twinFile.map[u]]
        ELSE file = twinFile

\* C5 happens: an invocation without --cache-init ends after a write timed
\* out and another did not.
C5_Witness ==
    /\ Completed
    /\ ~args.cache_init
    /\ Truthy(args.cache)
    /\ TimedOut # {}
    /\ wrote \ TimedOut # {}

\* C6: after scrub at time now every record left is well-formed with
\* expiration >= now; a well-formed record with expiration = now is kept
\* with its value, one with expiration < now is removed.
C6_ScrubBoundary ==
    ScrubDone =>
        /\ \A key \in DOMAIN scrubbed : Alive(scrubbed, key, scrubNow)
        /\ \A key \in DOMAIN loaded :
              WellFormed(loaded[key]) =>
                 /\ ToInt(loaded[key]).v * Res = scrubNow
                       => /\ key \in DOMAIN scrubbed
                          /\ scrubbed[key] = loaded[key]
                 /\ ToInt(loaded[key]).v * Res < scrubNow
                       => key \notin DOMAIN scrubbed

\* C6 happens: scrub met a record expiring exactly now and an expired one.
C6_Witness ==
    /\ ScrubDone
    /\ \E key \in DOMAIN loaded :
          WellFormed(loaded[key]) /\ ToInt(loaded[key]).v * Res = scrubNow
    /\ \E key \in DOMAIN loaded :
          WellFormed(loaded[key]) /\ ToInt(loaded[key]).v * Res < scrubNow

\* C7: scrub never raises because of a record whose value is no integer,
\* whatever the value is; it removes every such record and leaves the
\* well-formed unexpired records in place.
C7_ScrubIsolatesCorruptRecords ==
    /\ why # "scrub"
    /\ ScrubDone =>
          scrubbed = [key \in {x \in DOMAIN loaded :
                                  Alive(loaded, x, scrubNow)} |-> loaded[key]]

\* C8: when get_rss fails for one of the feeds the invocation ends with a
\* non-zero status, has written nothing to the output and has left the cache
\* file as it was.
C8_FetchFailureIsFatal ==
    fetchFailed =>
        /\ pc = "done"
        /\ exitCode = 1
        /\ Len(output) = outStart
        /\ wrote = {}
        /\ file = fileStart

\* C8 happens: the second feed fails after the first gave an entry.
C8_Witness ==
    /\ fetchFailed
    /\ feedIdx = 2
    /\ news # EmptyMap

\* C9: when the cache file exists and cannot be unpickled, the invocation
\* never gets past read_cache, which ends it with a non-zero status; it
\* writes nothing to the output and leaves the cache file as it was.
C9_CorruptCacheAborts ==
    (runs > 0 /\ Truthy(args.cache) /\ fileStart.kind = "corrupt") =>
        /\ file = fileStart
        /\ Len(output) = outStart
        /\ pc \notin {"scrub", "reconcile", "write", "commit", "save"}
        /\ pc = "done" => /\ why \in {"config", "fetch", "nonews", "unpickle"}
                          /\ why = "unpickle" => exitCode = 1

\* C9 happens: read_cache raised on an unreadable file, with news to write.
C9_Witness ==
    /\ pc = "done"
    /\ why = "unpickle"
    /\ fileStart.kind = "corrupt"
    /\ news # EmptyMap

\* C10: an entry without a link is never written to the output and never
\* gets a record in the cache file.
C10_NoLinkEntryDiscarded ==
    /\ PyNone \notin wrote
    /\ PyNone \notin DOMAIN file.map

\* The lines the current invocation has appended to the output.
Appended == SubSeq(output, outStart + 1, Len(output))

\* The line the output format prescribes for an entry:
\* [<handle>-<category>] <title> | <url>, [<handle>] <title> | <url>
\* without a category, <url> alone without a handle.
ExpectedLine(url, title, category, handle) ==
    IF handle = PyNone
    THEN <<Str(url), "\n">>
    ELSE IF category = PyNone
         THEN <<"[", handle, "] ", Str(title), " | ", Str(url), "\n">>
         ELSE <<"[", handle, "-", category, "] ", Str(title), " | ",
                Str(url), "\n">>

\* C11: on a cold start (cache file absent, no --cache-init, no write timed
\* out) every parsed entry is one output line of the prescribed format, the
\* output gets no other line, and the cache file left is exactly the mapping
\* of every parsed url to now + ttl, now being the clock read at line 105.
C11_ColdStartEndToEnd ==
    (/\ Completed
     /\ fileStart.kind = "absent"
     /\ Truthy(args.cache)
     /\ ~args.cache_init
     /\ TimedOut = {}) =>
        /\ Len(Appended) = Cardinality(DOMAIN parsed)
        /\ \A u \in DOMAIN parsed :
              Cardinality({i \in 1..Len(Appended) :
                  Appended[i] = ExpectedLine(u, parsed[u][1], parsed[u][2],
                                             args.handle)}) = 1
        /\ \E t \in Readings :
              file = FilePickle([u \in DOMAIN parsed |->
                                    IntV(t + args.cache_expiration)])

\* C11 happens: a cold start with a handle writes an entry with a category
\* and one without.
C11_Witness ==
    /\ Completed
    /\ fileStart.kind = "absent"
    /\ Truthy(args.cache)
    /\ ~args.cache_init
    /\ TimedOut = {}
    /\ args.handle = "bot"
    /\ DOMAIN parsed = {"u1", "u2"}
    /\ parsed["u1"][2] = "cat"
    /\ Len(Appended) = 2

\* C14: a negative --cache-expiration or an output path that does not
\* exist ends the invocation with a non-zero status before any feed is
\* fetched, before the cache is read and before it is written; an expiration
\* of 0 is accepted.
C14_ConfigErrorBeforeAnything ==
    /\ (runs > 0 /\ (args.cache_expiration < 0 \/ ~args.output_exists)) =>
          /\ pc = "done"
          /\ why = "config"
          /\ exitCode = 1
          /\ feedIdx = 1
          /\ ~fetchFailed
          /\ news = EmptyMap
          /\ loaded = EmptyMap
          /\ file = fileStart
          /\ Len(output) = outStart
    /\ (runs > 0 /\ args.cache_expiration = 0 /\ args.output_exists) =>
          why # "config"

\* C14 happens: an invocation with a negative expiration has ended.
C14_Witness ==
    /\ runs > 0
    /\ args.cache_expiration < 0
    /\ args.output_exists
    /\ pc = "done"
    /\ exitCode = 1

\* The order in which an invocation goes through its steps.
StepOrder ==
    { <<"idle", "fetch">>, <<"idle", "done">>, <<"fetch", "check">>,
      <<"fetch", "done">>, <<"check", "load">>, <<"check", "done">>,
      <<"load", "scrub">>, <<"load", "done">>, <<"scrub", "reconcile">>,
      <<"scrub", "done">>, <<"reconcile", "write">>,
      <<"reconcile", "commit">>, <<"write", "commit">>,
      <<"commit", "save">>, <<"save", "done">> }

\* An invocation that found no news has ended with status 0, has written
\* nothing and has neither read nor written the cache file.
NoNewsLeavesAll ==
    (pc = "done" /\ why = "nonews") =>
        /\ exitCode = 0
        /\ parsed = EmptyMap
        /\ loaded = EmptyMap
        /\ scrubbed = EmptyMap
        /\ file = fileStart
        /\ Len(output) = outStart

\* C15: when all feeds are fetched and no entry is parsed the invocation
\* exits with status 0 before the cache is read, writes nothing and leaves
\* the cache file as it was; every other invocation that completes goes
\* through load, scrub, reconcile, gate and write, persist, in this order.
C15_NoNewsExitsBeforeCache ==
    /\ []NoNewsLeavesAll
    /\ [][/\ pc' # pc => <<pc, pc'>> \in StepOrder
          /\ (pc = "check" /\ pc' # pc) =>
                IF news = EmptyMap
                THEN pc' = "done" /\ why' = "nonews" /\ exitCode' = 0
                ELSE pc' = "load"
          /\ (pc' = "done" /\ why' = "ok") => pc = "save"]_vars

\* C15 happens: two feeds gave no entry, the cache file holds an expired
\* record, and the invocation has ended.
C15_Witness ==
    /\ pc = "done"
    /\ why = "nonews"
    /\ feedIdx > 2
    /\ \E key \in DOMAIN file.map :
          WellFormed(file.map[key]) /\ ToInt(file.map[key]).v * Res < clock

\* C16 as stated: the cache file a completed invocation leaves is the
\* scrubbed cache with every parsed url set to one and the same now + ttl.
C16_SameExpirationForAllSeen ==
    (Completed /\ Truthy(args.cache)) =>
        \E t \in Readings :
            file = FilePickle(
                     [u \in DOMAIN scrubbed \cup DOMAIN parsed |->
                         IF u \in DOMAIN parsed
                         THEN IntV(t + args.cache_expiration)
                         ELSE scrubbed[u]])

\* C16, amended: the cache file a completed invocation leaves is the
\* scrubbed cache with every parsed url whose write did not time out set to
\* t + ttl, t being the clock read when the record was set: at line 99 for a
\* known url, at line 105, after the writes, for the new ones, which share
\* one expiration that is not earlier than a known url's. The other records
\* keep their value, and there is no record for any other url.
C16_PersistedCacheFrame ==
    (Completed /\ Truthy(args.cache)) =>
        LET recorded == DOMAIN parsed \ TimedOut
        IN  /\ file.kind = "pickle"
            /\ DOMAIN file.map = DOMAIN scrubbed \cup recorded
            /\ \A u \in DOMAIN file.map :
                  IF u \in DOMAIN parsed
                  THEN /\ u \in DOMAIN stamp
                       /\ stamp[u] \in Readings
                       /\ file.map[u] = IntV(stamp[u] + args.cache_expiration)
                  ELSE file.map[u] = scrubbed[u]
            /\ \A u \in recorded, v \in recorded \ DOMAIN scrubbed :
                  IF u \in DOMAIN scrubbed
                  THEN stamp[u] <= stamp[v]
                  ELSE stamp[u] = stamp[v]

\* C16 happens: a completed invocation recorded a new url a second later
\* than it refreshed a known one, and kept the record of a url not parsed.
C16_Witness ==
    /\ Completed
    /\ Truthy(args.cache)
    /\ "u1" \in DOMAIN scrubbed /\ "u1" \notin DOMAIN parsed
    /\ PyNone \in DOMAIN parsed /\ "u2" \in DOMAIN parsed
    /\ \E u \in DOMAIN parsed \cap DOMAIN scrubbed :
          \E v \in DOMAIN parsed \ DOMAIN scrubbed :
             v \in DOMAIN stamp /\ stamp[u] < stamp[v]

\* C17: a write that stalls past the alarm costs only its own entry; every
\* other new entry is written, once, and the invocation goes on to persist
\* the cache and ends with status 0.
C17_StallScopedToEntry ==
    /\ stalled # {} => (pc \in {"write", "commit", "save"} \/ Completed)
    /\ pc = "write" => (todo # {} /\ todo \subseteq DOMAIN news)
    /\ (stalled # {} /\ pc \in {"commit", "save", "done"}) =>
          /\ DOMAIN twinNews \ stalled = wrote
          /\ Len(Appended) = Cardinality(wrote)
          /\ \A u \in wrote :
                \E i \in 1..Len(Appended) :
                   Appended[i] = format_message(u, twinNews[u], args.handle)
    /\ (stalled # {} /\ Completed) =>
          IF Truthy(args.cache) THEN file = FilePickle(cache)
          ELSE file = fileStart

\* C17 happens: of two new entries one stalled and the other was written,
\* and the invocation completed.
C17_Witness ==
    /\ Completed
    /\ stalled = {"u1"}
    /\ wrote = {"u2"}
    /\ Truthy(args.cache)

\* C20: in a completed invocation without --cache-init every url whose
\* line was written to the output has a record in the cache file the
\* invocation leaves, whenever the alarm fires.
C20_EmittedImpliesCached ==
    (Completed /\ ~args.cache_init /\ Truthy(args.cache)) =>
        \A u \in wrote : file.kind = "pickle" /\ u \in DOMAIN file.map

\* C12: scrubbing what scrub_cache left, once more at the same time, leaves
\* it as it is, and does not raise.
C12_ScrubIdempotent ==
    /\ pc = "reconcile" =>
          /\ ~scrub_cache(cache, scrubNow).raised
          /\ scrub_cache(cache, scrubNow).cache = cache
    /\ pc = "rescrubbed" => cache = scrubbed

\* C12 happens: the first call removed a record that is no integer and an
\* expired one and kept one that has not expired, and the second call has
\* returned.
C12_Witness ==
    /\ pc = "rescrubbed"
    /\ DOMAIN cache # {}
    /\ DOMAIN cache # DOMAIN loaded
    /\ \E key \in DOMAIN loaded : loaded[key] = StrV
    /\ \E key \in DOMAIN loaded :
          WellFormed(loaded[key]) /\ key \notin DOMAIN cache

PlacesOf(u) == {i \in 1..Len(seen) : seen[i].link = u}

\* The last entry with link u that the feeds gave.
LastOf(u) ==
    seen[CHOOSE i \in PlacesOf(u) : \A j \in PlacesOf(u) : j <= i]

\* The lines for url u that the invocation appended to the output.
LinesOf(u) ==
    {i \in 1..Len(Appended) :
        Appended[i][Len(Appended[i]) - 1] = Str(u)}

\* C18: a url that several feeds give is one candidate with the title and
\* the category of the feed fetched last; its line is written at most once,
\* with that title and category, and it has one record in the cache file.
C18_SameUrlCollapses ==
    (pc \in {"reconcile", "write", "commit", "save"} \/ Completed) =>
        \A u \in Keys :
            /\ u \in DOMAIN parsed <=> PlacesOf(u) # {}
            /\ u \in DOMAIN parsed =>
                  parsed[u] = <<LastOf(u).title, LastOf(u).category>>
            /\ Cardinality(LinesOf(u)) <= 1
            /\ u \in wrote <=> LinesOf(u) # {}
            /\ \A i \in LinesOf(u) :
                  Appended[i] = ExpectedLine(u, LastOf(u).title,
                                             LastOf(u).category, args.handle)
            /\ (Completed /\ Truthy(args.cache) /\ u \in DOMAIN parsed
                  /\ u \notin TimedOut) =>
                  /\ file.kind = "pickle"
                  /\ u \in DOMAIN file.map

\* C18 happens: two feeds gave u1 with different titles and categories, and
\* the invocation wrote its line and completed.
C18_Witness ==
    /\ Completed
    /\ Truthy(args.cache)
    /\ args.handle = "bot"
    /\ Len(seen) = 2
    /\ seen[1].link = "u1" /\ seen[2].link = "u1"
    /\ seen[1].title # seen[2].title
    /\ seen[1].category # seen[2].category
    /\ wrote = {"u1"}
    /\ TimedOut = {}

\* C19: two invocations at the same time on one cache file are not kept
\* apart: each persists its own cache whole, so the file is the cache of the
\* one that persisted last, and a record only the other one set is lost.
C19_LastPersistWins ==
    /\ (Completed /\ other.pc \in {"load", "reconcile", "write", "commit",
                                   "save"}) =>
          file = FilePickle(cache)
    /\ (other.pc = "done" /\ pc \in {"load", "scrub", "reconcile", "write",
                                     "commit", "save"}) =>
          file = FilePickle(other.cache)
    /\ (Completed /\ other.pc = "done") =>
          /\ file \in {FilePickle(cache), FilePickle(other.cache)}
          /\ \A u \in DOMAIN cache \ DOMAIN other.cache :
                file = FilePickle(other.cache) => u \notin DOMAIN file.map
          /\ \A u \in DOMAIN other.cache \ DOMAIN cache :
                file = FilePickle(cache) => u \notin DOMAIN file.map

\* C19 happens: both invocations have completed, both wrote u1 to the
\* output, and the record the first one set for u2 is not in the file.
C19_Witness ==
    /\ Completed
    /\ other.pc = "done"
    /\ TimedOut = {}
    /\ "u1" \in wrote \cap other.wrote
    /\ "u2" \in wrote
    /\ "u2" \in DOMAIN cache
    /\ "u2" \notin DOMAIN file.map

====
